---------------------------- MODULE Spec2Model ----------------------------
(***************************************************************************)
(* A model of converter.py: poscar_to_cif and cif_to_poscar, with the     *)
(* vector helpers they use.                                                *)
(*                                                                         *)
(* Text.  A document is a sequence of lines, a line is the sequence of     *)
(* tokens str.split() yields on it (so a blank line is the empty           *)
(* sequence and line.strip() is already applied).  A token is a record:    *)
(*   k = "key"  : a CIF key; style "us" is the text _<grp>_<fld>, style    *)
(*                "wc" is the text *<grp with * for _>*<fld> when grp is   *)
(*                "cell" and *atom*site_<fld> when grp is "atom_site"      *)
(*   k = "loop" : the text loop_                                           *)
(*   k = "dec"  : a decimal literal, v its value in ticks of 1e-7          *)
(*   k = "int"  : an integer literal, v its value                          *)
(*   k = "txt"  : any other word, s its characters                         *)
(* Words of k = "txt" hold no key, loop_ or number text. Substring tests   *)
(* of the code ("_cell_length_a" in line) are tests on the tokens of the   *)
(* line; the words of a line are separated by single blanks.               *)
(*                                                                         *)
(* Numbers.  A float is an integer number of ticks (One ticks = 1.0), so   *)
(* that "%.6f" rounds away the last decimal digit.  Inputs avoid a last    *)
(* digit of 5, where the rounding of the binary double decides.            *)
(***************************************************************************)
EXTENDS Integers, Sequences, FiniteSets

VARIABLES
    poscar,   \* argument of poscar_to_cif: the lines of poscar.strip()
    p2c,      \* frame of poscar_to_cif: its locals, position and result
    cif,      \* argument of cif_to_poscar: the lines of cif.strip()
    c2p       \* frame of cif_to_poscar: its locals, position and result

vars == <<poscar, p2c, cif, c2p>>

-----------------------------------------------------------------------------
(* Bounds of the model *)

\* most atom records / atom lines in an input document
MaxAtoms == 3

-----------------------------------------------------------------------------
(* Numbers *)

\* 1.0 in ticks: one more decimal digit than the six that ":.6f" prints
One == 10000000

Abs(x) == IF x < 0 THEN -x ELSE x

\* round a non-negative tick count to a multiple of q, half up
RoundTo(x, q) == ((x + q \div 2) \div q) * q

\* f"{x:.6f}": the value the printed text denotes
Fmt6(x) == IF x < 0 THEN -RoundTo(-x, 10) ELSE RoundTo(x, 10)

\* f"{x:.2f}"
Fmt2(x) == IF x < 0 THEN -RoundTo(-x, 100000) ELSE RoundTo(x, 100000)

-----------------------------------------------------------------------------
(* Tokens *)

Tok(k, style, grp, fld, v, s) ==
    [k |-> k, style |-> style, grp |-> grp, fld |-> fld, v |-> v, s |-> s]

Key(style, grp, fld) == Tok("key", style, grp, fld, 0, <<>>)
LoopTok == Tok("loop", "", "", "", 0, <<>>)
Dec(v) == Tok("dec", "", "", "", v, <<>>)
IntTok(n) == Tok("int", "", "", "", n, <<>>)
Txt(s) == Tok("txt", "", "", "", 0, s)

Letters ==
    {"A","B","C","D","E","F","G","H","I","J","K","L","M","N","O","P","Q","R",
     "S","T","U","V","W","X","Y","Z","a","b","c","d","e","f","g","h","i","j",
     "k","l","m","n","o","p","q","r","s","t","u","v","w","x","y","z"}

DigitChars == <<"0","1","2","3","4","5","6","7","8","9">>

\* str.isalpha on one character
IsAlpha(ch) == ch \in Letters

\* str(n) for n >= 0
RECURSIVE ToStr(_)
ToStr(n) ==
    IF n < 10 THEN <<DigitChars[n + 1]>>
    ELSE ToStr(n \div 10) \o <<DigitChars[(n % 10) + 1]>>

\* float(token) succeeds
IsFloat(t) == t.k \in {"dec", "int"}

\* float(token), in ticks
FloatVal(t) == IF t.k = "int" THEN t.v * One ELSE t.v

\* int(token) succeeds: int("1.0") raises
IsInt(t) == t.k = "int"


-----------------------------------------------------------------------------
(* cif_to_poscar: tests on one stripped line *)

\* not line
IsBlank(line) == Len(line) = 0

\* line.startswith('#')
IsComment(line) ==
    /\ Len(line) > 0
    /\ line[1].k = "txt"
    /\ Len(line[1].s) > 0
    /\ line[1].s[1] = "#"

\* "_cell_<fld>" in line
HasUnderscoreKey(line, grp, fld) ==
    \E t \in 1..Len(line) :
        /\ line[t].k = "key" /\ line[t].style = "us"
        /\ line[t].grp = grp /\ line[t].fld = fld

\* the wildcard test written like the exact-key test: a faulty variant
HasWildcardKeyExactOnly(line, grp, fld) == HasUnderscoreKey(line, grp, fld)

\* "*cell*<fld>" in line
HasWildcardKey(line, grp, fld) ==
    \E t \in 1..Len(line) :
        /\ line[t].k = "key" /\ line[t].style = "wc"
        /\ line[t].grp = grp /\ line[t].fld = fld

\* "*cell*length_a" in line or "_cell_length_a" in line
IsCellLine(line, fld) ==
    HasWildcardKey(line, "cell", fld) \/ HasUnderscoreKey(line, "cell", fld)

\* "loop_" in line
HasLoop(line) == \E t \in 1..Len(line) : line[t].k = "loop"

\* "*atom*site_" in line or "_atom_site_" in line
IsAtomSiteLine(line) ==
    \/ \E t \in 1..Len(line) :
          line[t].k = "key" /\ line[t].style = "wc" /\ line[t].grp = "atom_site"
    \/ \E t \in 1..Len(line) :
          line[t].k = "key" /\ line[t].style = "us" /\ line[t].grp = "atom_site"

\* sub in fld, for the field names of the model
FieldContains(fld, sub) ==
    \/ fld = sub
    \/ <<fld, sub>> \in {<<"aniso_label", "label">>}

\* "type_symbol" in line, "label" in line, "fract_x" in line, ...
Mentions(line, sub) ==
    \E t \in 1..Len(line) : line[t].k = "key" /\ FieldContains(line[t].fld, sub)

\* line.startswith("*") or line.startswith("_")
StartsWithKey(line) ==
    /\ Len(line) > 0
    /\ line[1].k = "key"
    /\ (line[1].style = "wc" \/ line[1].style = "us")

-----------------------------------------------------------------------------
(* cif_to_poscar: the frame and its steps *)

\* column_indices = {}
EmptyMap == [x \in {} |-> 0]

\* the frame before the call
C2PIdle ==
    [pc |-> "idle", err |-> "", i |-> 0, n |-> 0, title |-> <<>>,
     a |-> 0, b |-> 0, c |-> 0, alpha |-> 0, beta |-> 0, gamma |-> 0,
     atom_lines |-> <<>>, reading_atoms |-> FALSE, column_indices |-> EmptyMap,
     species |-> <<>>, coords |-> <<>>, poscar |-> <<>>]

\* an exception leaves the function: nothing is returned
Raise(st, e) == [st EXCEPT !.pc = "error", !.err = e]

DataPrefix == <<"d", "a", "t", "a", "_">>

\* title.startswith("data_")
StartsWithData(line) ==
    /\ Len(line) > 0
    /\ line[1].k = "txt"
    /\ Len(line[1].s) >= 5
    /\ SubSeq(line[1].s, 1, 5) = DataPrefix

\* title = lines[0]; if title.startswith("data_"): title = title[5:]
Title(line) ==
    IF StartsWithData(line)
    THEN IF Len(line[1].s) = 5
         THEN Tail(line)
         ELSE <<Txt(SubSeq(line[1].s, 6, Len(line[1].s)))>> \o Tail(line)
    ELSE line

\* lines 112-125
C2PStart(lines) ==
    IF Len(lines) = 0
    THEN Raise(C2PIdle, "IndexError")
    ELSE [C2PIdle EXCEPT !.pc = "scan", !.i = 1, !.title = Title(lines[1]),
                         !.a = One, !.b = One, !.c = One,
                         !.alpha = 90 * One, !.beta = 90 * One, !.gamma = 90 * One]

\* a = float(line.split()[-1])
SetCell(st, var, line) ==
    LET t == line[Len(line)] IN
    IF IsFloat(t) THEN [st EXCEPT ![var] = FloatVal(t)]
    ELSE Raise(st, "ValueError")

\* column_indices[name] = len(column_indices)
PutColumn(st, name) ==
    [st EXCEPT !.column_indices =
        [x \in DOMAIN st.column_indices \cup {name} |->
            IF x = name THEN Cardinality(DOMAIN st.column_indices)
            ELSE st.column_indices[x]]]

\* max(column_indices.values())
MaxIndex(ci) == CHOOSE m \in {ci[x] : x \in DOMAIN ci} :
                    \A x \in DOMAIN ci : ci[x] <= m

\* lines 153-164
AtomSiteHeader(st, line) ==
    LET s1 == [st EXCEPT !.reading_atoms = TRUE] IN
    IF Mentions(line, "type_symbol") THEN PutColumn(s1, "type")
    ELSE IF Mentions(line, "label") THEN PutColumn(s1, "label")
    ELSE IF Mentions(line, "fract_x") THEN PutColumn(s1, "x")
    ELSE IF Mentions(line, "fract_y") THEN PutColumn(s1, "y")
    ELSE IF Mentions(line, "fract_z") THEN PutColumn(s1, "z")
    ELSE s1

\* lines 167-170
AtomRecord(st, line) ==
    IF DOMAIN st.column_indices = {}
    THEN Raise(st, "ValueError")
    ELSE IF Len(line) >= MaxIndex(st.column_indices) + 1
         THEN [st EXCEPT !.atom_lines = Append(@, line)]
         ELSE st

\* the body of "for line in lines", lines 129-170
ScanLine(st, line) ==
    IF IsBlank(line) \/ IsComment(line) THEN st
    ELSE IF IsCellLine(line, "length_a") THEN SetCell(st, "a", line)
    ELSE IF IsCellLine(line, "length_b") THEN SetCell(st, "b", line)
    ELSE IF IsCellLine(line, "length_c") THEN SetCell(st, "c", line)
    ELSE IF IsCellLine(line, "angle_alpha") THEN SetCell(st, "alpha", line)
    ELSE IF IsCellLine(line, "angle_beta") THEN SetCell(st, "beta", line)
    ELSE IF IsCellLine(line, "angle_gamma") THEN SetCell(st, "gamma", line)
    ELSE IF HasLoop(line)
         THEN [st EXCEPT !.reading_atoms = FALSE, !.column_indices = EmptyMap]
    ELSE IF IsAtomSiteLine(line) THEN AtomSiteHeader(st, line)
    ELSE IF st.reading_atoms /\ ~StartsWithKey(line) THEN AtomRecord(st, line)
    ELSE st

\* a faulty variant: every character but the digits is kept
AlphaOnlyKeepsSigns(t) ==
    IF t.k = "txt"
    THEN Txt(SelectSeq(t.s, LAMBDA ch : ch \notin {DigitChars[d] : d \in 1..10}))
    ELSE Txt(<<>>)

\* ''.join(filter(str.isalpha, label)); the text of a number holds no letter
AlphaOnly(t) ==
    IF t.k = "txt" THEN Txt(SelectSeq(t.s, IsAlpha)) ELSE Txt(<<>>)

\* species[sym] = species.get(sym, 0) + 1, the dict in insertion order
Count(species, sym) ==
    IF \E q \in 1..Len(species) : species[q].sym = sym
    THEN [q \in 1..Len(species) |->
            IF species[q].sym = sym
            THEN [species[q] EXCEPT !.n = @ + 1] ELSE species[q]]
    ELSE Append(species, [sym |-> sym, n |-> 1])

\* tokens[column_indices[name]] is evaluated without an exception
Readable(st, tokens, name) ==
    /\ name \in DOMAIN st.column_indices
    /\ st.column_indices[name] + 1 <= Len(tokens)

\* the exception tokens[column_indices[name]] raises
ReadError(st, tokens, name) ==
    IF name \notin DOMAIN st.column_indices THEN "KeyError" ELSE "IndexError"

\* tokens[column_indices[name]]
Read(st, tokens, name) == tokens[st.column_indices[name] + 1]

\* lines 189-192, after sym is known
ExtractCoords(st, tokens, sym) ==
    LET s1 == [st EXCEPT !.species = Count(@, sym)]
        bad == {name \in {"x", "y", "z"} : ~Readable(st, tokens, name)}
        first == IF ~Readable(st, tokens, "x") THEN "x"
                 ELSE IF ~IsFloat(Read(st, tokens, "x")) THEN "x"
                 ELSE IF ~Readable(st, tokens, "y") THEN "y"
                 ELSE IF ~IsFloat(Read(st, tokens, "y")) THEN "y"
                 ELSE IF ~Readable(st, tokens, "z") THEN "z"
                 ELSE IF ~IsFloat(Read(st, tokens, "z")) THEN "z"
                 ELSE "none"
    IN  IF first = "none"
        THEN [s1 EXCEPT !.coords = Append(@,
                 <<FloatVal(Read(st, tokens, "x")),
                   FloatVal(Read(st, tokens, "y")),
                   FloatVal(Read(st, tokens, "z"))>>)]
        ELSE IF first \in bad THEN Raise(s1, ReadError(st, tokens, first))
        ELSE Raise(s1, "ValueError")

\* the body of "for tokens in atom_lines", lines 177-192
ExtractAtom(st, tokens) ==
    IF "type" \in DOMAIN st.column_indices
    THEN IF Readable(st, tokens, "type")
         THEN ExtractCoords(st, tokens, Read(st, tokens, "type"))
         ELSE Raise(st, "IndexError")
    ELSE IF Readable(st, tokens, "label")
         THEN ExtractCoords(st, tokens, AlphaOnly(Read(st, tokens, "label")))
         ELSE Raise(st, ReadError(st, tokens, "label"))

\* a faulty variant: the cell is built from the angles too
LatticeBlockTriclinic(st) ==
    << <<Dec(Fmt6(st.a)), Dec(0), Dec(0)>>,
       <<Dec(IF st.gamma = 90 * One THEN 0 ELSE Fmt6(st.b) \div 2),
         Dec(Fmt6(st.b)), Dec(0)>>,
       <<Dec(0), Dec(0), Dec(Fmt6(st.c))>> >>

\* lines 199-201
LatticeBlock(st) ==
    << <<Dec(Fmt6(st.a)), Dec(0), Dec(0)>>,
       <<Dec(0), Dec(Fmt6(st.b)), Dec(0)>>,
       <<Dec(0), Dec(0), Dec(Fmt6(st.c))>> >>

\* lines 195-212: the lines of the text returned
Emit(st) ==
    <<st.title, <<Dec(One)>>>>
    \o LatticeBlock(st)
    \o << [q \in 1..Len(st.species) |-> st.species[q].sym],
          [q \in 1..Len(st.species) |-> IntTok(st.species[q].n)],
          <<Txt(<<"D", "i", "r", "e", "c", "t">>)>> >>
    \o [q \in 1..Len(st.coords) |->
           <<Dec(Fmt6(st.coords[q][1])), Dec(Fmt6(st.coords[q][2])),
             Dec(Fmt6(st.coords[q][3]))>>]

\* one iteration of the scan loop, or the end of it
ScanStep(st, lines) ==
    IF st.i > Len(lines) THEN [st EXCEPT !.pc = "extract", !.n = 1]
    ELSE LET s1 == ScanLine(st, lines[st.i]) IN
         IF s1.pc = "error" THEN s1 ELSE [s1 EXCEPT !.i = @ + 1]

\* one iteration of the extraction loop
ExtractStep(st) ==
    LET s1 == ExtractAtom(st, st.atom_lines[st.n]) IN
    IF s1.pc = "error" THEN s1 ELSE [s1 EXCEPT !.n = @ + 1]

\* the return, line 212
ReturnStep(st) == [st EXCEPT !.pc = "done", !.poscar = Emit(st)]

\* cif_to_poscar(lines), run to its end: the last frame
RECURSIVE C2PRun(_, _)
C2PRun(st, lines) ==
    IF st.pc = "scan" THEN C2PRun(ScanStep(st, lines), lines)
    ELSE IF st.pc = "extract"
         THEN IF st.n <= Len(st.atom_lines) THEN C2PRun(ExtractStep(st), lines)
              ELSE ReturnStep(st)
    ELSE st

\* what a caller of cif_to_poscar(lines) sees: the text, or the exception
CifToPoscar(lines) ==
    LET st == C2PRun(C2PStart(lines), lines) IN
    [ok |-> st.pc = "done", err |-> st.err, poscar |-> st.poscar]

\* the call is entered: lines 112-125
C2PEnter ==
    /\ c2p.pc = "call"
    /\ c2p' = C2PStart(cif)
    /\ UNCHANGED <<poscar, p2c, cif>>

\* for line in lines, one line (lines 128-170)
C2PScan ==
    /\ c2p.pc = "scan"
    /\ c2p' = ScanStep(c2p, cif)
    /\ UNCHANGED <<poscar, p2c, cif>>

\* for tokens in atom_lines, one record (lines 176-192)
C2PExtract ==
    /\ c2p.pc = "extract"
    /\ c2p.n <= Len(c2p.atom_lines)
    /\ c2p' = ExtractStep(c2p)
    /\ UNCHANGED <<poscar, p2c, cif>>

\* lines 195-212
C2PReturn ==
    /\ c2p.pc = "extract"
    /\ c2p.n > Len(c2p.atom_lines)
    /\ c2p' = ReturnStep(c2p)
    /\ UNCHANGED <<poscar, p2c, cif>>

-----------------------------------------------------------------------------
(* The vector helpers, lines 4-45.  A vector is a sequence of ticks; a     *)
(* product of two components is in ticks squared.                          *)

RECURSIVE SumSeq(_)
SumSeq(q) == IF Len(q) = 0 THEN 0 ELSE Head(q) + SumSeq(Tail(q))

RECURSIVE SqrtBetween(_, _, _)
SqrtBetween(x, lo, hi) ==
    IF lo >= hi THEN lo
    ELSE LET mid == (lo + hi + 1) \div 2 IN
         IF mid * mid <= x THEN SqrtBetween(x, mid, hi)
         ELSE SqrtBetween(x, lo, mid - 1)

\* math.sqrt(x), to the nearest tick; x in ticks squared, below 2^30
Sqrt(x) ==
    LET r == SqrtBetween(x, 0, 32767) IN
    IF x - r * r > r THEN r + 1 ELSE r

\* vector_norm(v), lines 4-14
vector_norm(v) == Sqrt(SumSeq([q \in 1..Len(v) |-> v[q] * v[q]]))

\* dot_product(v1, v2), lines 16-27: zip stops at the shorter vector
dot_product(v1, v2) ==
    LET m == IF Len(v1) < Len(v2) THEN Len(v1) ELSE Len(v2) IN
    SumSeq([q \in 1..m |-> v1[q] * v2[q]])

\* norm1 * norm2 = 0: the division of line 43 raises ZeroDivisionError
AngleRaises(v1, v2) == vector_norm(v1) * vector_norm(v2) = 0

\* angle_between(v1, v2), lines 29-45, in ticks of a degree.  The arc cosine
\* is exact for a cosine of 0, of 1 and beyond (clamped) and of -1 and below;
\* in between it is the chord from (-1, 180) to (1, 0), which the lattices
\* of this model never need.
angle_between(v1, v2) ==
    LET dot == dot_product(v1, v2)
        den == vector_norm(v1) * vector_norm(v2)
    IN  IF dot = 0 THEN 90 * One
        ELSE IF dot >= den THEN 0
        ELSE IF dot <= -den THEN 180 * One
        ELSE 90 * One - ((90 * dot) \div den) * One

-----------------------------------------------------------------------------
(* poscar_to_cif: the frame and its steps *)

\* the frame before the call
P2CIdle ==
    [pc |-> "idle", err |-> "", title |-> <<>>, scale |-> 0, lattice |-> <<>>,
     a_vec |-> <<>>, b_vec |-> <<>>, c_vec |-> <<>>,
     a_len |-> 0, b_len |-> 0, c_len |-> 0,
     alpha |-> 0, beta |-> 0, gamma |-> 0,
     atom_types |-> <<>>, atom_counts |-> <<>>, coords |-> <<>>,
     cif_lines |-> <<>>, g |-> 0, i |-> 0, idx |-> 0, cif |-> <<>>]

\* scale * x for a scale of whole ticks; exact when scale is a whole number
Mul(scale, x) == (scale \div One) * x + ((scale % One) * x) \div One

\* list(map(float, line.split())) raises
FloatsRaise(line) == \E t \in 1..Len(line) : ~IsFloat(line[t])

\* list(map(float, line.split()))
Floats(line) == [t \in 1..Len(line) |-> FloatVal(line[t])]

\* the exception of lines 58-60, "" when there is none
HeaderError(lines) ==
    IF Len(lines) < 2 THEN "IndexError"
    ELSE IF Len(lines[2]) /= 1 \/ FloatsRaise(lines[2]) THEN "ValueError"
    ELSE IF Len(lines) < 3 THEN "IndexError"
    ELSE IF FloatsRaise(lines[3]) THEN "ValueError"
    ELSE IF Len(lines) < 4 THEN "IndexError"
    ELSE IF FloatsRaise(lines[4]) THEN "ValueError"
    ELSE IF Len(lines) < 5 THEN "IndexError"
    ELSE IF FloatsRaise(lines[5]) THEN "ValueError"
    ELSE ""

\* lines 57-69
ParseHeader(st, lines) ==
    IF HeaderError(lines) /= "" THEN Raise(st, HeaderError(lines))
    ELSE
    LET scale == FloatVal(lines[2][1])
        lattice == [r \in 1..3 |-> Floats(lines[r + 2])]
        vec == [r \in 1..3 |-> [q \in 1..Len(lattice[r]) |-> Mul(scale, lattice[r][q])]]
        s1 == [st EXCEPT !.title = lines[1], !.scale = scale, !.lattice = lattice,
                         !.a_vec = vec[1], !.b_vec = vec[2], !.c_vec = vec[3],
                         !.a_len = vector_norm(vec[1]),
                         !.b_len = vector_norm(vec[2]),
                         !.c_len = vector_norm(vec[3])]
    IN  IF \/ AngleRaises(vec[2], vec[3])
           \/ AngleRaises(vec[1], vec[3])
           \/ AngleRaises(vec[1], vec[2])
        THEN Raise(s1, "ZeroDivisionError")
        ELSE [s1 EXCEPT !.alpha = angle_between(vec[2], vec[3]),
                        !.beta = angle_between(vec[1], vec[3]),
                        !.gamma = angle_between(vec[1], vec[2]),
                        !.pc = "atoms"]

\* line.split()[:3]
FirstThree(line) == SubSeq(line, 1, IF Len(line) < 3 THEN Len(line) ELSE 3)

\* the exception of line 74 for the atom lines first..last, "" when none
RECURSIVE CoordsError(_, _, _)
CoordsError(lines, first, last) ==
    IF first > last THEN ""
    ELSE IF Len(lines) < first THEN "IndexError"
    ELSE IF FloatsRaise(FirstThree(lines[first])) THEN "ValueError"
    ELSE CoordsError(lines, first + 1, last)

\* lines 71-74; line 8 of the text (the mode marker) is lines[8] here
ParseAtoms(st, lines) ==
    IF Len(lines) < 6 THEN Raise(st, "IndexError")
    ELSE IF Len(lines) < 7 THEN Raise(st, "IndexError")
    ELSE IF \E t \in 1..Len(lines[7]) : ~IsInt(lines[7][t]) THEN Raise(st, "ValueError")
    ELSE
    LET counts == [t \in 1..Len(lines[7]) |-> lines[7][t].v]
        total == SumSeq(counts)
    IN  IF CoordsError(lines, 9, 8 + total) /= ""
        THEN Raise(st, CoordsError(lines, 9, 8 + total))
        ELSE [st EXCEPT !.atom_types = lines[6], !.atom_counts = counts,
                        !.coords = [q \in 1..total |-> Floats(FirstThree(lines[8 + q]))],
                        !.pc = "header"]

\* title.replace(' ', '_'): the words of the title, joined by "_"
RECURSIVE JoinUnderscore(_)
JoinUnderscore(line) ==
    IF Len(line) = 0 THEN <<>>
    ELSE IF Len(line) = 1 THEN line[1].s
    ELSE line[1].s \o <<"_">> \o JoinUnderscore(Tail(line))

\* lines 76-91
HeaderLines(st) ==
    << <<Txt(JoinUnderscore(st.title))>>,
       <<Key("us", "symmetry", "space_group_name_H-M"),
         Txt(<<"'", "P">>), Txt(<<"1", "'">>)>>,
       <<Key("us", "symmetry", "Int_Tables_number"), IntTok(1)>>,
       <<Key("us", "cell", "length_a"), Dec(Fmt6(st.a_len))>>,
       <<Key("us", "cell", "length_b"), Dec(Fmt6(st.b_len))>>,
       <<Key("us", "cell", "length_c"), Dec(Fmt6(st.c_len))>>,
       <<Key("us", "cell", "angle_alpha"), Dec(Fmt2(st.alpha))>>,
       <<Key("us", "cell", "angle_beta"), Dec(Fmt2(st.beta))>>,
       <<Key("us", "cell", "angle_gamma"), Dec(Fmt2(st.gamma))>>,
       <<LoopTok>>,
       <<Key("us", "atom_site", "label")>>,
       <<Key("us", "atom_site", "fract_x")>>,
       <<Key("us", "atom_site", "fract_y")>>,
       <<Key("us", "atom_site", "fract_z")>> >>

\* lines 76-93
EmitHeader(st) ==
    [st EXCEPT !.cif_lines = HeaderLines(st), !.idx = 0, !.g = 1, !.i = 0,
               !.pc = "loop"]

\* len(zip(atom_types, atom_counts))
ZipLen(st) ==
    IF Len(st.atom_types) < Len(st.atom_counts)
    THEN Len(st.atom_types) ELSE Len(st.atom_counts)

\* a faulty variant: the label carries the running index idx
AtomLabelRunning(st) == Txt(st.atom_types[st.g].s \o ToStr(st.idx + 1))

\* f"{atom}{i+1}", line 97
AtomLabel(st) == Txt(st.atom_types[st.g].s \o ToStr(st.i + 1))

\* lines 96-98: one iteration of "for i in range(count)"
EmitAtom(st) ==
    LET xyz == st.coords[st.idx + 1] IN
    IF Len(xyz) /= 3 THEN Raise(st, "ValueError")
    ELSE [st EXCEPT !.cif_lines = Append(@,
              <<AtomLabel(st), Dec(Fmt6(xyz[1])), Dec(Fmt6(xyz[2])),
                Dec(Fmt6(xyz[3]))>>),
              !.idx = @ + 1, !.i = @ + 1]

\* line 94: the next pair of zip(atom_types, atom_counts)
NextGroup(st) == [st EXCEPT !.g = @ + 1, !.i = 0]

\* line 100
P2CReturnStep(st) == [st EXCEPT !.pc = "done", !.cif = st.cif_lines]

\* lines 57-69
P2CParseHeader ==
    /\ p2c.pc = "call"
    /\ p2c' = ParseHeader(p2c, poscar)
    /\ UNCHANGED <<poscar, cif, c2p>>

\* lines 71-74
P2CParseAtoms ==
    /\ p2c.pc = "atoms"
    /\ p2c' = ParseAtoms(p2c, poscar)
    /\ UNCHANGED <<poscar, cif, c2p>>

\* lines 76-93
P2CEmitHeader ==
    /\ p2c.pc = "header"
    /\ p2c' = EmitHeader(p2c)
    /\ UNCHANGED <<poscar, cif, c2p>>

\* lines 95-98, one atom
P2CEmitAtom ==
    /\ p2c.pc = "loop"
    /\ p2c.g <= ZipLen(p2c)
    /\ p2c.i < p2c.atom_counts[p2c.g]
    /\ p2c' = EmitAtom(p2c)
    /\ UNCHANGED <<poscar, cif, c2p>>

\* line 94, the inner loop is over
P2CNextGroup ==
    /\ p2c.pc = "loop"
    /\ p2c.g <= ZipLen(p2c)
    /\ p2c.i >= p2c.atom_counts[p2c.g]
    /\ p2c' = NextGroup(p2c)
    /\ UNCHANGED <<poscar, cif, c2p>>

\* line 100
P2CReturn ==
    /\ p2c.pc = "loop"
    /\ p2c.g > ZipLen(p2c)
    /\ p2c' = P2CReturnStep(p2c)
    /\ UNCHANGED <<poscar, cif, c2p>>

\* cif_to_poscar(poscar_to_cif(doc)): the text returned is the argument
RoundTripCall ==
    /\ p2c.pc = "done"
    /\ c2p.pc = "idle"
    /\ cif' = p2c.cif
    /\ c2p' = [c2p EXCEPT !.pc = "call"]
    /\ UNCHANGED <<poscar, p2c>>

-----------------------------------------------------------------------------
(* The inputs of the model *)

ElSi == <<"S", "i">>
ElO == <<"O">>
ElFe == <<"F", "e">>

\* every sequence over S of length 0..n
SeqsUpTo(S, n) == UNION {[1..m -> S] : m \in 0..n}

Direct == <<Txt(<<"D", "i", "r", "e", "c", "t">>)>>

(* Lattice-format documents.  Lattice components are a few hundred ticks,  *)
(* so that the squares of vector_norm stay in range.                       *)

PoscarTitles == { <<Txt(ElSi)>>, <<Txt(ElSi), Txt(<<"c", "e", "l", "l">>)>> }

ScaleLines == { <<IntTok(1)>>, <<Dec(2 * One)>>, <<Txt(<<"x">>)>> }

LatCubic ==
    << <<Dec(500), IntTok(0), IntTok(0)>>,
       <<IntTok(0), Dec(500), IntTok(0)>>,
       <<IntTok(0), IntTok(0), Dec(500)>> >>

LatOrtho ==
    << <<Dec(403), Dec(0), Dec(0)>>,
       <<Dec(0), Dec(500), Dec(0)>>,
       <<Dec(0), Dec(0), Dec(617)>> >>

LatRotated ==
    << <<Dec(300), Dec(400), Dec(0)>>,
       <<Dec(-400), Dec(300), Dec(0)>>,
       <<Dec(0), Dec(0), Dec(500)>> >>

LatParallel ==
    << <<Dec(500), Dec(0), Dec(0)>>,
       <<Dec(403), Dec(0), Dec(0)>>,
       <<Dec(0), Dec(0), Dec(500)>> >>

LatShort ==
    << <<Dec(500), Dec(0)>>,
       <<Dec(0), Dec(500), Dec(0)>>,
       <<Dec(0), Dec(0), Dec(500)>> >>

LatBad ==
    << <<Dec(500), Dec(0), Dec(0)>>,
       <<Dec(0), Txt(<<"x">>), Dec(0)>>,
       <<Dec(0), Dec(0), Dec(500)>> >>

LatZero ==
    << <<Dec(500), Dec(0), Dec(0)>>,
       <<Dec(0), Dec(500), Dec(0)>>,
       <<Dec(0), Dec(0), Dec(0)>> >>

Lattices == {LatCubic, LatOrtho, LatRotated, LatParallel, LatShort, LatBad, LatZero}

AtomLine0 == <<Dec(0), Dec(0), Dec(0)>>
AtomLine1 == <<Dec(5000000), Dec(5000000), Dec(2500003), Txt(<<"T">>), Txt(<<"T">>)>>
AtomLine2 == <<Dec(2500000), Dec(7500000), Dec(5000000)>>
AtomLineShort == <<Dec(0), Dec(0)>>
AtomLineBad == <<Dec(0), Txt(<<"x">>), Dec(0)>>

AtomLineChoices == {AtomLine0, AtomLine1, AtomLineShort, AtomLineBad}

\* the species line and the counts line
Groups ==
    { [types |-> <<Txt(ElSi)>>, counts |-> <<IntTok(2)>>],
      [types |-> <<Txt(ElSi), Txt(ElO)>>, counts |-> <<IntTok(1), IntTok(2)>>],
      [types |-> <<Txt(ElSi), Txt(ElO)>>, counts |-> <<IntTok(2), IntTok(1)>>],
      [types |-> <<Txt(ElSi), Txt(ElO), Txt(ElSi)>>,
       counts |-> <<IntTok(1), IntTok(1), IntTok(1)>>] }

BadGroups ==
    { [types |-> <<Txt(ElSi), Txt(ElO)>>, counts |-> <<IntTok(1), Dec(One)>>],
      [types |-> <<Txt(ElSi)>>, counts |-> <<IntTok(1), IntTok(1)>>],
      [types |-> <<Txt(ElSi), Txt(ElO)>>, counts |-> <<IntTok(0), IntTok(1)>>] }

PoscarDoc(title, scale, lattice, grp, atoms) ==
    <<title, scale>> \o lattice \o <<grp.types, grp.counts, Direct>> \o atoms

\* documents whose atom part varies
PoscarAtomDocs ==
    { PoscarDoc(<<Txt(ElSi)>>, <<IntTok(1)>>, LatCubic, grp, atoms) :
        grp \in Groups \cup BadGroups, atoms \in SeqsUpTo(AtomLineChoices, MaxAtoms) }

\* documents whose head varies
PoscarHeadDocs ==
    { PoscarDoc(title, scale, lattice, grp, <<AtomLine0, AtomLine1, AtomLine2>>) :
        title \in PoscarTitles, scale \in ScaleLines, lattice \in Lattices,
        grp \in Groups }

PoscarDocs == PoscarAtomDocs \cup PoscarHeadDocs

\* the sum of the counts line of a well-formed document
GroupTotal(grp) == SumSeq([q \in 1..Len(grp.counts) |-> grp.counts[q].v])

\* well-formed documents with a diagonal cell
RoundDocs ==
    UNION { { PoscarDoc(title, scale, lattice, grp, atoms) :
                atoms \in [1..GroupTotal(grp) -> {AtomLine0, AtomLine1, AtomLine2}] } :
            title \in PoscarTitles, scale \in {<<IntTok(1)>>, <<Dec(2 * One)>>},
            lattice \in {LatCubic, LatOrtho}, grp \in Groups }

(* Structural-format documents *)

CifTitles ==
    { <<Txt(<<"d", "a", "t", "a", "_", "S", "i">>)>>,
      <<Txt(ElSi), Txt(<<"O", "2">>)>> }

Styles == {"us", "wc"}

CellLine(style, fld, tok) == <<Key(style, "cell", fld), tok>>

Lengths(style) ==
    << CellLine(style, "length_a", Dec(50000000)),
       CellLine(style, "length_b", Dec(40000003)),
       CellLine(style, "length_c", IntTok(6)) >>

Angles(style, al, be, ga) ==
    << CellLine(style, "angle_alpha", al),
       CellLine(style, "angle_beta", be),
       CellLine(style, "angle_gamma", ga) >>

SymmetryLine ==
    <<Key("us", "symmetry", "space_group_name_H-M"),
      Txt(<<"'", "P">>), Txt(<<"1", "'">>)>>

\* the cell part of a document, by number
CellBlock(style, v) ==
    IF v = 1 THEN <<>>
    ELSE IF v = 2 THEN <<CellLine(style, "length_a", Dec(50000000))>>
    ELSE IF v = 3 THEN Lengths(style)
    ELSE IF v = 4
         THEN << <<Txt(<<"#">>), Txt(ElSi)>>, SymmetryLine,
                 CellLine(style, "length_a", Dec(40000000)), <<>> >>
              \o Lengths(style)
              \o <<CellLine(style, "length_c", Dec(70000007))>>
    ELSE IF v = 5
         THEN Lengths(style) \o Angles(style, IntTok(90), Dec(90 * One), IntTok(90))
    ELSE Lengths(style) \o Angles(style, Dec(605000000), IntTok(90), IntTok(120))

CellBlocks == 1..6

\* the atom-site columns of a loop, in order
Layouts ==
    { <<"label", "fract_x", "fract_y", "fract_z">>,
      <<"type_symbol", "fract_x", "fract_y", "fract_z">>,
      <<"label", "type_symbol", "fract_x", "fract_y", "fract_z">>,
      <<"label", "occupancy", "fract_x", "fract_y", "fract_z">>,
      <<"label", "fract_x", "fract_y", "fract_z", "occupancy">>,
      <<"fract_x", "fract_y", "fract_z", "occupancy", "label">> }

LoopHeader(style, layout) ==
    <<<<LoopTok>>>> \o [q \in 1..Len(layout) |-> <<Key(style, "atom_site", layout[q])>>]

\* an atom: its label, its element, its coordinate tokens; short: the record
\* holds its first two tokens only
Atom(label, elem, x, y, z, short) ==
    [label |-> label, elem |-> elem, xyz |-> <<x, y, z>>, short |-> short]

AtomSi1 == Atom(ElSi \o <<"1">>, ElSi, Dec(0), Dec(0), Dec(0), FALSE)
AtomSi2 == Atom(ElSi \o <<"2">>, ElSi, Dec(5000000), Dec(5000000), Dec(2500003), FALSE)
AtomO1 == Atom(ElO \o <<"1">>, ElO, Dec(2500000), Dec(7500000), IntTok(0), FALSE)
AtomFe == Atom(ElFe \o <<"2", "+">>, ElFe, Dec(0), Dec(5000000), Dec(5000000), FALSE)
AtomBad == Atom(ElSi \o <<"3">>, ElSi, Txt(<<"x">>), Dec(0), Dec(0), FALSE)
AtomShort == Atom(ElO \o <<"2">>, ElO, Dec(0), Dec(0), Dec(0), TRUE)

AtomChoices == {AtomSi1, AtomSi2, AtomO1, AtomFe, AtomBad, AtomShort}

\* the token of an atom under one column
Cell(atom, column) ==
    IF column = "label" THEN Txt(atom.label)
    ELSE IF column = "type_symbol" THEN Txt(atom.elem)
    ELSE IF column = "fract_x" THEN atom.xyz[1]
    ELSE IF column = "fract_y" THEN atom.xyz[2]
    ELSE IF column = "fract_z" THEN atom.xyz[3]
    ELSE Dec(One)

RecordLine(atom, layout) ==
    LET full == [q \in 1..Len(layout) |-> Cell(atom, layout[q])] IN
    IF atom.short THEN SubSeq(full, 1, 2) ELSE full

Records(atoms, layout) == [q \in 1..Len(atoms) |-> RecordLine(atoms[q], layout)]

\* what follows the atom records, by number
Trailer(style, v) ==
    IF v = 1 THEN <<>>
    ELSE IF v = 2
         THEN << <<LoopTok>>, <<Key("us", "symmetry", "equiv_pos_as_xyz")>>,
                 <<Txt(<<"x", ",", "y", ",", "z">>)>> >>
    ELSE << <<LoopTok>>, <<Key(style, "atom_site", "aniso_label")>>,
            <<Key(style, "atom_site", "aniso_U_11")>>,
            <<Txt(ElSi \o <<"1">>), Dec(100000)>> >>

Trailers == 1..3

CifDoc(title, style, cell, layout, atoms, trailer) ==
    <<title>> \o CellBlock(style, cell) \o LoopHeader(style, layout)
    \o Records(atoms, layout) \o Trailer(style, trailer)

\* documents whose atom records vary
CifAtomDocs ==
    { CifDoc(<<Txt(ElSi)>>, "us", 3, layout, atoms, 1) :
        layout \in Layouts, atoms \in SeqsUpTo(AtomChoices, MaxAtoms) }

\* documents whose keys, cell lines and loops vary
CifHeadDocs ==
    { CifDoc(title, style, cell, layout, atoms, trailer) :
        title \in CifTitles, style \in Styles, cell \in CellBlocks,
        layout \in Layouts, trailer \in Trailers,
        atoms \in {<<>>, <<AtomSi1, AtomO1>>, <<AtomFe, AtomSi2, AtomFe>>} }

CifDocs == CifAtomDocs \cup CifHeadDocs

-----------------------------------------------------------------------------
(* Specifications *)

NextCif == C2PEnter \/ C2PScan \/ C2PExtract \/ C2PReturn

NextPoscar ==
    \/ P2CParseHeader \/ P2CParseAtoms \/ P2CEmitHeader
    \/ P2CEmitAtom \/ P2CNextGroup \/ P2CReturn

\* cif_to_poscar is called on a structural-format document
InitCif ==
    /\ cif \in CifDocs
    /\ c2p = [C2PIdle EXCEPT !.pc = "call"]
    /\ poscar = <<>>
    /\ p2c = P2CIdle

SpecCif == InitCif /\ [][NextCif]_vars

\* poscar_to_cif is called on a lattice-format document
InitPoscar ==
    /\ poscar \in PoscarDocs
    /\ p2c = [P2CIdle EXCEPT !.pc = "call"]
    /\ cif = <<>>
    /\ c2p = C2PIdle

SpecPoscar == InitPoscar /\ [][NextPoscar]_vars

\* cif_to_poscar(poscar_to_cif(doc)) on a well-formed document with a
\* diagonal cell
InitRound ==
    /\ poscar \in RoundDocs
    /\ p2c = [P2CIdle EXCEPT !.pc = "call"]
    /\ cif = <<>>
    /\ c2p = C2PIdle

NextRound == NextPoscar \/ RoundTripCall \/ NextCif

SpecRound == InitRound /\ [][NextRound]_vars

Init == InitCif \/ InitPoscar

Next == NextPoscar \/ RoundTripCall \/ NextCif

Spec == Init /\ [][Next]_vars

-----------------------------------------------------------------------------
(* Properties of cif_to_poscar *)

C2PEnded == c2p.pc \in {"done", "error"}

\* the result of the call, as its caller sees it
C2PResult == [ok |-> c2p.pc = "done", poscar |-> c2p.poscar]

Outcome(r) == [ok |-> r.ok, poscar |-> r.poscar]

\* the index of the last loop_ line of a document, 0 when there is none
LastLoop(doc) ==
    IF \E l \in 1..Len(doc) : HasLoop(doc[l])
    THEN CHOOSE l \in 1..Len(doc) :
            HasLoop(doc[l]) /\ \A m \in (l + 1)..Len(doc) : ~HasLoop(doc[m])
    ELSE 0

\* the atom-site header lines after the last loop_ line, in order
HeadersSinceLoop(doc) ==
    SelectSeq(SubSeq(doc, LastLoop(doc) + 1, Len(doc)),
              LAMBDA line : IsAtomSiteLine(line) /\ ~HasLoop(line))

\* the field a key of column_indices stands for
FieldOf(name) ==
    IF name = "type" THEN "type_symbol"
    ELSE IF name = "label" THEN "label"
    ELSE IF name = "x" THEN "fract_x"
    ELSE IF name = "y" THEN "fract_y"
    ELSE "fract_z"

\* the positions (from 1) of the headers of a field among the header lines
HeaderPositions(doc, fld) ==
    {q \in 1..Len(HeadersSinceLoop(doc)) : Mentions(HeadersSinceLoop(doc)[q], fld)}

\* a document with one loop, the atom-site loop, and nothing after its records
OneLoop(doc) ==
    /\ Cardinality({l \in 1..Len(doc) : HasLoop(doc[l])}) = 1
    /\ \A name \in {"x", "y", "z"} :
          Cardinality(HeaderPositions(doc, FieldOf(name))) = 1
    /\ Cardinality(HeaderPositions(doc, "label")
                   \cup HeaderPositions(doc, "type_symbol")) >= 1

\* the atom-site loop has no column but type_symbol, label and fract_x/y/z
PlainColumns(doc) ==
    \A q \in 1..Len(HeadersSinceLoop(doc)) :
        \E fld \in {"type_symbol", "label", "fract_x", "fract_y", "fract_z"} :
            Mentions(HeadersSinceLoop(doc)[q], fld)

\* a line of the document is an atom record with a coordinate token that is
\* no number
MalformedRecord(doc, line) ==
    /\ Len(line) >= Len(HeadersSinceLoop(doc))
    /\ ~StartsWithKey(line) /\ ~HasLoop(line) /\ ~IsComment(line)
    /\ \E name \in {"x", "y", "z"} :
          \E q \in HeaderPositions(doc, FieldOf(name)) : ~IsFloat(line[q])

WithoutMalformed(doc) == SelectSeq(doc, LAMBDA line : ~MalformedRecord(doc, line))

\* C1: an atom record with an unparseable coordinate token is dropped: the
\* call returns, and what it returns is what it returns for the document
\* without that record.
C1_MalformedRecordDropped ==
    (/\ C2PEnded
     /\ OneLoop(cif) /\ PlainColumns(cif)
     /\ \E l \in 1..Len(cif) : MalformedRecord(cif, cif[l]))
    => /\ c2p.pc = "done"
       /\ C2PResult = Outcome(CifToPoscar(WithoutMalformed(cif)))

\* every key _cell_..., _atom_site_... written in its wildcard form
ToWildcard(doc) ==
    [l \in 1..Len(doc) |->
        [t \in 1..Len(doc[l]) |->
            IF /\ doc[l][t].k = "key" /\ doc[l][t].style = "us"
               /\ doc[l][t].grp \in {"cell", "atom_site"}
            THEN [doc[l][t] EXCEPT !.style = "wc"]
            ELSE doc[l][t]]]

\* the keys of the document are all of the underscore style
UnderscoreDoc(doc) ==
    \A l \in 1..Len(doc) : \A t \in 1..Len(doc[l]) :
        doc[l][t].k = "key" => doc[l][t].style = "us"

\* C3: a document with underscore keys and the same document with the keys
\* in wildcard form give the same result: both fail, or both return the same
\* text.
C3_WildcardSameAsUnderscore ==
    (C2PEnded /\ UnderscoreDoc(cif))
    => C2PResult = Outcome(CifToPoscar(ToWildcard(cif)))

\* C3 happens: an underscore document with cell lengths and atoms was
\* converted, and its wildcard form is another document
C3_Witness ==
    /\ c2p.pc = "done"
    /\ UnderscoreDoc(cif)
    /\ ToWildcard(cif) /= cif
    /\ c2p.a /= One
    /\ Len(c2p.coords) >= 2

IsLengthLine(line, fld) ==
    \E t \in 1..Len(line) :
        line[t].k = "key" /\ line[t].grp = "cell" /\ line[t].fld = fld

IsAngleLine(line) ==
    \E t \in 1..Len(line) :
        /\ line[t].k = "key" /\ line[t].grp = "cell"
        /\ line[t].fld \in {"angle_alpha", "angle_beta", "angle_gamma"}

\* the value of the last line of a cell length, 1.0 when there is none
LastLength(doc, fld) ==
    LET at == {l \in 1..Len(doc) : IsLengthLine(doc[l], fld)} IN
    IF at = {} THEN One
    ELSE LET l == CHOOSE m \in at : \A o \in at : o <= m IN
         FloatVal(doc[l][Len(doc[l])])

WithoutAngles(doc) == SelectSeq(doc, LAMBDA line : ~IsAngleLine(line))

\* every angle line given the value tok
WithAngles(doc, tok) ==
    [l \in 1..Len(doc) |->
        IF IsAngleLine(doc[l])
        THEN [doc[l] EXCEPT ![Len(doc[l])] = tok] ELSE doc[l]]

AnglesNumeric(doc) ==
    \A l \in 1..Len(doc) : IsAngleLine(doc[l]) => IsFloat(doc[l][Len(doc[l])])

AngleValues == {IntTok(90), Dec(1205000000), Dec(0)}

\* C4: the text returned has the scale line 1.0 and the lattice diag(a, b, c),
\* each length the value of its last line or 1.0; and the result does not
\* depend on the angle lines, on their values or on their presence.
C4_OrthogonalCellIgnoresAngles ==
    (C2PEnded /\ AnglesNumeric(cif))
    => /\ c2p.pc = "done" =>
            /\ c2p.poscar[2] = <<Dec(One)>>
            /\ SubSeq(c2p.poscar, 3, 5) =
                 << <<Dec(Fmt6(LastLength(cif, "length_a"))), Dec(0), Dec(0)>>,
                    <<Dec(0), Dec(Fmt6(LastLength(cif, "length_b"))), Dec(0)>>,
                    <<Dec(0), Dec(0), Dec(Fmt6(LastLength(cif, "length_c")))>> >>
       /\ C2PResult = Outcome(CifToPoscar(WithoutAngles(cif)))
       /\ \A tok \in AngleValues :
            C2PResult = Outcome(CifToPoscar(WithAngles(cif, tok)))

\* C4 happens: a document with cell lengths and angles that are not 90 was
\* converted
C4_Witness ==
    /\ c2p.pc = "done"
    /\ c2p.gamma /= 90 * One
    /\ c2p.alpha /= 90 * One
    /\ c2p.a /= One
    /\ WithoutAngles(cif) /= cif

\* C7: after the scan, the index recorded for a column is the position
\* (from 0) of its header among all atom-site header lines since the last
\* loop_ line.
C7_IndexIsHeaderPosition ==
    c2p.pc \in {"extract", "done"}
    => \A name \in DOMAIN c2p.column_indices :
          c2p.column_indices[name] + 1 \in HeaderPositions(cif, FieldOf(name))

\* removing the characters of a word that are in (keep = FALSE) or not in
\* (keep = TRUE) a set
Filtered(tok, chars, keep) ==
    IF tok.k = "txt"
    THEN Txt(SelectSeq(tok.s, LAMBDA ch : (ch \in chars) = keep))
    ELSE Txt(<<>>)

Digits == {DigitChars[d] : d \in 1..10}

\* the species and counts of a sequence of elements, in the order of first
\* appearance
IsTally(species, syms) ==
    LET firsts == {q \in 1..Len(syms) : \A o \in 1..(q - 1) : syms[o] /= syms[q]} IN
    /\ Len(species) = Cardinality(firsts)
    /\ \A q \in firsts :
          LET r == Cardinality({o \in firsts : o <= q}) IN
          /\ species[r].sym = syms[q]
          /\ species[r].n = Cardinality({o \in 1..Len(syms) : syms[o] = syms[q]})

Extracted(tokens) ==
    LET st == ExtractAtom([c2p EXCEPT !.species = <<>>, !.coords = <<>>], tokens) IN
    [sym |-> st.species[1].sym,
     line |-> [o \in 1..3 |-> Dec(Fmt6(st.coords[1][o]))]]

RECURSIVE Concat(_)
Concat(seqs) == IF Len(seqs) = 0 THEN <<>> ELSE Head(seqs) \o Concat(Tail(seqs))

\* C9: in the text returned the species are in the order of first appearance,
\* the counts sum to the number of coordinate lines, and the coordinate lines
\* are those of the records of species 1, then those of species 2, and so on.
C9_CoordinatesGroupedBySpecies ==
    c2p.pc = "done"
    => LET records == [q \in 1..Len(c2p.atom_lines) |-> Extracted(c2p.atom_lines[q])]
           syms == c2p.poscar[6]
           counts == c2p.poscar[7]
           lines == SubSeq(c2p.poscar, 9, Len(c2p.poscar))
           grouped == Concat([r \in 1..Len(syms) |->
                         SelectSeq(records, LAMBDA rec : rec.sym = syms[r])])
       IN  /\ IsTally([r \in 1..Len(syms) |-> [sym |-> syms[r], n |-> counts[r].v]],
                      [q \in 1..Len(records) |-> records[q].sym])
           /\ Len(lines) = SumSeq([r \in 1..Len(counts) |-> counts[r].v])
           /\ lines = [q \in 1..Len(grouped) |-> grouped[q].line]

\* a loop_ line follows an atom record of the atom-site loop: the index of
\* the first such loop_ line, 0 when there is none
LaterLoop(doc) ==
    LET at == {l \in 2..Len(doc) :
                 /\ HasLoop(doc[l])
                 /\ CifToPoscar(SubSeq(doc, 1, l - 1)).ok
                 /\ Len(CifToPoscar(SubSeq(doc, 1, l - 1)).poscar) > 8}
    IN  IF at = {} THEN 0 ELSE CHOOSE l \in at : \A m \in at : l <= m

\* C10: a loop_ line after the atom records does not make the conversion
\* fail, and the records before it give the species and coordinates they
\* give without it.
C10_LaterLoopHarmless ==
    (C2PEnded /\ LaterLoop(cif) > 0)
    => LET before == CifToPoscar(SubSeq(cif, 1, LaterLoop(cif) - 1)).poscar IN
       /\ c2p.pc = "done"
       /\ Len(c2p.poscar) >= Len(before)
       /\ c2p.poscar[6] = before[6]
       /\ SubSeq(c2p.poscar, 9, Len(before)) = SubSeq(before, 9, Len(before))

-----------------------------------------------------------------------------
(* Properties of poscar_to_cif *)

P2CEnded == p2c.pc \in {"done", "error"}

\* the counts line holds integers that are not negative
CountsOk(doc) ==
    \A t \in 1..Len(doc[7]) : doc[7][t].k = "int" /\ doc[7][t].v >= 0

\* sum(counts) of a document whose counts line is well formed
Total(doc) == SumSeq([t \in 1..Len(doc[7]) |-> doc[7][t].v])

\* the number of atoms of the groups 1..g
Before(doc, g) == SumSeq([t \in 1..g |-> doc[7][t].v])

\* the group (from 1) of the k-th atom (from 1)
GroupOf(doc, k) ==
    CHOOSE g \in 1..Len(doc[7]) : Before(doc, g - 1) < k /\ k <= Before(doc, g)

ThreeFloats(line) ==
    Len(line) >= 3 /\ \A t \in 1..3 : line[t].k \in {"dec", "int"}

\* a well-formed lattice-format document: the fields of section 4.2, every
\* number parseable, one count per species, no lattice vector of length zero
WellFormed(doc) ==
    /\ Len(doc) >= 8
    /\ Len(doc[2]) = 1 /\ doc[2][1].k \in {"dec", "int"} /\ FloatVal(doc[2][1]) /= 0
    /\ \A r \in 3..5 :
          /\ Len(doc[r]) = 3 /\ ThreeFloats(doc[r])
          /\ \E t \in 1..3 : FloatVal(doc[r][t]) /= 0
    /\ Len(doc[6]) = Len(doc[7])
    /\ \A t \in 1..Len(doc[6]) : doc[6][t].k = "txt"
    /\ CountsOk(doc)
    /\ Len(doc) >= 8 + Total(doc)
    /\ \A k \in 1..Total(doc) : ThreeFloats(doc[8 + k])

\* C5: on a well-formed document the text returned ends with the atom-site
\* loop header and sum(counts) atom lines; the k-th carries the first three
\* tokens of the k-th atom line to six decimals, and its label is the species
\* of its group followed by its position in the group, from 1.
C5_AtomLinesLabelledPerGroup ==
    (P2CEnded /\ WellFormed(poscar))
    => /\ p2c.pc = "done"
       /\ Len(p2c.cif) = 14 + Total(poscar)
       /\ SubSeq(p2c.cif, 10, 14) =
            << <<LoopTok>>,
               <<Key("us", "atom_site", "label")>>,
               <<Key("us", "atom_site", "fract_x")>>,
               <<Key("us", "atom_site", "fract_y")>>,
               <<Key("us", "atom_site", "fract_z")>> >>
       /\ \A k \in 1..Total(poscar) :
            LET g == GroupOf(poscar, k)
                line == poscar[8 + k]
            IN  p2c.cif[14 + k] =
                  <<Txt(poscar[6][g].s \o ToStr(k - Before(poscar, g - 1))),
                    Dec(Fmt6(FloatVal(line[1]))), Dec(Fmt6(FloatVal(line[2]))),
                    Dec(Fmt6(FloatVal(line[3])))>>

\* C5 happens: a well-formed document with two groups, the second of more
\* than one atom, and an atom line of more than three tokens was converted
C5_Witness ==
    /\ p2c.pc = "done"
    /\ WellFormed(poscar)
    /\ Len(poscar[7]) >= 2
    /\ poscar[7][1].v >= 1 /\ poscar[7][2].v >= 2
    /\ \E k \in 1..Total(poscar) : Len(poscar[8 + k]) > 3

\* a numeric field of the document is missing or malformed
Malformed(doc) ==
    \/ Len(doc) < 8
    \/ Len(doc[2]) /= 1 \/ doc[2][1].k \notin {"dec", "int"}
    \/ \E r \in 3..5 : Len(doc[r]) < 3 \/ \E t \in 1..Len(doc[r]) :
                           doc[r][t].k \notin {"dec", "int"}
    \/ \E t \in 1..Len(doc[7]) : doc[7][t].k /= "int"
    \/ /\ CountsOk(doc)
       /\ \/ Len(doc) < 8 + Total(doc)
          \/ \E k \in 1..Total(doc) : ~ThreeFloats(doc[8 + k])

\* C6: poscar_to_cif fails on every document with a missing or malformed
\* numeric field.
C6_MalformedNumberFails ==
    (P2CEnded /\ Malformed(poscar)) => p2c.pc = "error"

-----------------------------------------------------------------------------
(* The round trip cif_to_poscar(poscar_to_cif(doc)) *)

\* how often x is in the sequence q
Occurrences(q, x) == Cardinality({o \in 1..Len(q) : q[o] = x})

SameMultiset(p, q) ==
    /\ Len(p) = Len(q)
    /\ \A o \in 1..Len(p) : Occurrences(p, p[o]) = Occurrences(q, p[o])

\* the (species, coordinates) pairs of a lattice-format document, the
\* coordinates to six decimals
Pairs(doc) ==
    [k \in 1..Total(doc) |->
        <<doc[6][GroupOf(doc, k)],
          [t \in 1..3 |-> Fmt6(FloatVal(doc[8 + k][t]))]>>]

\* the atoms a lattice-format document gives a species
SpeciesCount(doc, sym) ==
    SumSeq([t \in 1..Len(doc[7]) |->
               IF t <= Len(doc[6]) /\ doc[6][t] = sym THEN doc[7][t].v ELSE 0])

\* C2: the round trip of a well-formed document with a diagonal cell
\* succeeds and gives back the three cell lengths (within 1e-6), the multiset
\* of (species, coordinates) pairs and the count of every species.
C2_RoundTripPreserves ==
    C2PEnded
    => /\ c2p.pc = "done"
       /\ \A r \in 1..3 :
            Abs(FloatVal(c2p.poscar[2 + r][r])
                - Abs(Mul(FloatVal(poscar[2][1]), FloatVal(poscar[2 + r][r])))) <= 10
       /\ CountsOk(c2p.poscar)
       /\ Len(c2p.poscar) = 8 + Total(c2p.poscar)
       /\ SameMultiset(Pairs(poscar), Pairs(c2p.poscar))
       /\ \A t \in 1..Len(poscar[6]) :
            SpeciesCount(poscar, poscar[6][t]) = SpeciesCount(c2p.poscar, poscar[6][t])

=============================================================================
